---- MODULE Spec2Model ----
(***************************************************************************)
(* Model of the authentication screens of ai-chatbot-frontend:             *)
(*   - the four-step registration wizard  (src/src/pages/Register.tsx)     *)
(*   - the sign-in form                   (src/unnamed/part_000, Login)    *)
(* Strings typed by the user are sequences of one-character strings, so    *)
(* that length, trimming and the e-mail pattern are computed, not assumed. *)
(* Every event handler runs to completion as one action.                   *)
(***************************************************************************)
EXTENDS Integers, Sequences, FiniteSets, TLC

VARIABLES
    currentStep,    \* Register: useState(0)
    formData,       \* Register: useState<FormData>
    errors,         \* Register: useState<Partial<FormData>>  (partial mapping)
    loginFormData,  \* Login: useState({email, password})
    loginErrors,    \* Login: useState({email, password})
    toasts,         \* titles passed to toast(), in order
    navigations,    \* paths passed to navigate(), in order
    location,       \* the route currently shown
    lastEvent,      \* the handler that ran last ("mount" right after construction)
    visited,        \* the values currentStep has taken, in order of first visit
    progressProps,  \* ProgressSteps rendered on its own: its props
    progressSegments \* ProgressSteps rendered on its own: the classes of its segments

vars == <<currentStep, formData, errors, loginFormData, loginErrors,
          toasts, navigations, location, lastEvent, visited,
          progressProps, progressSegments>>

registerVars == <<currentStep, formData, errors, visited>>
loginVars == <<loginFormData, loginErrors>>
progressVars == <<progressProps, progressSegments>>

----------------------------------------------------------------------------
(* Bounds and program constants *)

\* largest totalSteps ProgressSteps is rendered with on its own
MaxTotalSteps == 8

\* longest string the e-mail validators are compared on
MaxEmailLen == 7

\* longest run of "a" a user types in the model
MaxTypedLen == 9

\* value.length < 8 (Register) / formData.password.length < 8 (Login)
MinPasswordLength == 8

\* value.trim().length < 2
MinNameLength == 2

----------------------------------------------------------------------------
(* Strings *)

Rep(c, n) == [i \in 1..n |-> c]

\* JavaScript \s, restricted to the characters of the model
IsSpace(c) == c \in {" ", "\t", "\n"}

RECURSIVE trimStart(_)
trimStart(s) ==
    IF s # <<>> /\ IsSpace(Head(s)) THEN trimStart(Tail(s)) ELSE s

RECURSIVE trimEnd(_)
trimEnd(s) ==
    IF s # <<>> /\ IsSpace(s[Len(s)]) THEN trimEnd(SubSeq(s, 1, Len(s) - 1)) ELSE s

\* String.prototype.trim
trim(s) == trimEnd(trimStart(s))

\* [^\s@]+ : a non-empty run of characters that are neither whitespace nor "@"
IsLocalRun(s) ==
    /\ Len(s) >= 1
    /\ \A i \in 1..Len(s) : ~IsSpace(s[i]) /\ s[i] # "@"

\* the pattern with its first run allowed to be empty ([^\s@]* for [^\s@]+)
emailPattern_EmptyLocal(s) ==
    \E i \in 1..Len(s) : \E j \in 1..Len(s) :
        /\ i < j
        /\ s[i] = "@"
        /\ s[j] = "."
        /\ \A k \in 1..(i - 1) : ~IsSpace(s[k]) /\ s[k] # "@"
        /\ IsLocalRun(SubSeq(s, i + 1, j - 1))
        /\ IsLocalRun(SubSeq(s, j + 1, Len(s)))

\* /^[^\s@]+@[^\s@]+\.[^\s@]+$/.test(s)
emailPattern(s) ==
    \E i \in 1..Len(s) : \E j \in 1..Len(s) :
        /\ i < j
        /\ s[i] = "@"
        /\ s[j] = "."
        /\ IsLocalRun(SubSeq(s, 1, i - 1))
        /\ IsLocalRun(SubSeq(s, i + 1, j - 1))
        /\ IsLocalRun(SubSeq(s, j + 1, Len(s)))

\* the values a user types into an input (e.target.value)
Typed ==
    { <<>>,
      <<"A">>,
      <<" ", "A", " ">>,
      <<"A", "l">>,
      <<"a", "@", "b", ".", "c", "o">> }
    \cup { Rep("a", n) : n \in (MinPasswordLength - 1)..MaxTypedLen }

\* the alphabet the e-mail validators are compared on
EmailAlphabet == {"a", ".", "@", " "}

\* every string over EmailAlphabet of length at most MaxEmailLen
EmailInputs == UNION { [1..n -> EmailAlphabet] : n \in 0..MaxEmailLen }

\* the keys of a keydown event
Keys == {"Enter", "a"}

----------------------------------------------------------------------------
(* JavaScript values *)

null == "null"
undefined == "undefined"

\* truthiness of an error value (string | null | undefined)
Truthy(e) == e # null /\ e # undefined /\ e # ""

----------------------------------------------------------------------------
(* Registration wizard *)

Fields == {"name", "email", "password", "confirmPassword"}

steps == << [field |-> "name"],
            [field |-> "email"],
            [field |-> "password"],
            [field |-> "confirmPassword"] >>

\* steps[currentStep], the array being indexed from 0
currentField == steps[currentStep + 1]

\* errors[field], undefined for a key the object does not have
errorOf(field) == IF field \in DOMAIN errors THEN errors[field] ELSE undefined

\* { ...errors, [field]: value }
withError(field, value) ==
    [g \in (DOMAIN errors) \cup {field} |-> IF g = field THEN value ELSE errors[g]]

\* validateField with the name measured untrimmed (value.length)
validateField_NoTrim(field, value) ==
    CASE field = "name" ->
            IF Len(value) < MinNameLength
            THEN "Name must be at least 2 characters" ELSE null
      [] field = "email" ->
            IF ~emailPattern(value) THEN "Please enter a valid email" ELSE null
      [] field = "password" ->
            IF Len(value) < MinPasswordLength
            THEN "Password must be at least 8 characters" ELSE null
      [] field = "confirmPassword" ->
            IF value # formData.password THEN "Passwords do not match" ELSE null
      [] OTHER -> null

validateField(field, value) ==
    CASE field = "name" ->
            IF Len(trim(value)) < MinNameLength
            THEN "Name must be at least 2 characters" ELSE null
      [] field = "email" ->
            IF ~emailPattern(value) THEN "Please enter a valid email" ELSE null
      [] field = "password" ->
            IF Len(value) < MinPasswordLength
            THEN "Password must be at least 8 characters" ELSE null
      [] field = "confirmPassword" ->
            IF value # formData.password THEN "Passwords do not match" ELSE null
      [] OTHER -> null

\* the screen exists while its route is shown
RegisterMounted == location = "/register"

\* toast({title: "Account created!", ...}); navigate("/")
registerSubmit ==
    /\ toasts' = Append(toasts, "Account created!")
    /\ navigations' = Append(navigations, "/")
    /\ location' = "/"

noteVisit(step) ==
    IF \E i \in 1..Len(visited) : visited[i] = step
    THEN visited
    ELSE Append(visited, step)

\* handleNext without the return of its failure path: the second setErrors
\* wins and the step is left all the same
handleNextBody_NoReturn ==
    /\ errors' = withError(currentField.field, "")
    /\ UNCHANGED formData
    /\ IF currentStep < Len(steps) - 1
       THEN /\ currentStep' = currentStep + 1
            /\ visited' = noteVisit(currentStep + 1)
            /\ UNCHANGED <<toasts, navigations, location>>
       ELSE /\ registerSubmit
            /\ UNCHANGED <<currentStep, visited>>

\* handleNext without the setErrors of its success path
handleNextBody_NoClear ==
    LET value == formData[currentField.field]
        error == validateField(currentField.field, value)
    IN  IF Truthy(error)
        THEN /\ errors' = withError(currentField.field, error)
             /\ UNCHANGED <<currentStep, formData, visited,
                            toasts, navigations, location>>
        ELSE /\ UNCHANGED <<errors, formData>>
             /\ IF currentStep < Len(steps) - 1
                THEN /\ currentStep' = currentStep + 1
                     /\ visited' = noteVisit(currentStep + 1)
                     /\ UNCHANGED <<toasts, navigations, location>>
                ELSE /\ registerSubmit
                     /\ UNCHANGED <<currentStep, visited>>

\* handleNext submitting one step early (currentStep < steps.length - 2)
handleNextBody_SubmitEarly ==
    LET value == formData[currentField.field]
        error == validateField(currentField.field, value)
    IN  IF Truthy(error)
        THEN /\ errors' = withError(currentField.field, error)
             /\ UNCHANGED <<currentStep, formData, visited,
                            toasts, navigations, location>>
        ELSE /\ errors' = withError(currentField.field, "")
             /\ UNCHANGED formData
             /\ IF currentStep < Len(steps) - 2
                THEN /\ currentStep' = currentStep + 1
                     /\ visited' = noteVisit(currentStep + 1)
                     /\ UNCHANGED <<toasts, navigations, location>>
                ELSE /\ registerSubmit
                     /\ UNCHANGED <<currentStep, visited>>

\* the body of handleNext
handleNextBody ==
    LET value == formData[currentField.field]
        error == validateField(currentField.field, value)
    IN  IF Truthy(error)
        THEN /\ errors' = withError(currentField.field, error)
             /\ UNCHANGED <<currentStep, formData, visited,
                            toasts, navigations, location>>
        ELSE /\ errors' = withError(currentField.field, "")
             /\ UNCHANGED formData
             /\ IF currentStep < Len(steps) - 1
                THEN /\ currentStep' = currentStep + 1
                     /\ visited' = noteVisit(currentStep + 1)
                     /\ UNCHANGED <<toasts, navigations, location>>
                ELSE /\ registerSubmit
                     /\ UNCHANGED <<currentStep, visited>>

\* click on "Continue" / "Finish Registration"
handleNext ==
    /\ RegisterMounted
    /\ handleNextBody
    /\ lastEvent' = "handleNext"
    /\ UNCHANGED <<loginVars, progressVars>>

\* handleBack without its test of currentStep
handleBackBody_NoGuard ==
    /\ currentStep' = currentStep - 1
    /\ visited' = noteVisit(currentStep - 1)

\* the body of handleBack
handleBackBody ==
    IF currentStep > 0
    THEN /\ currentStep' = currentStep - 1
         /\ visited' = noteVisit(currentStep - 1)
    ELSE UNCHANGED <<currentStep, visited>>

\* handleBack also dropping the stored errors
handleBack_ClearsErrors ==
    /\ RegisterMounted
    /\ handleBackBody
    /\ errors' = <<>>
    /\ lastEvent' = "handleBack"
    /\ UNCHANGED <<formData, toasts, navigations, location>>
    /\ UNCHANGED <<loginVars, progressVars>>

\* click on "Back"; the handler is modelled at every step, its own test of
\* currentStep being what keeps the index in range
handleBack ==
    /\ RegisterMounted
    /\ handleBackBody
    /\ lastEvent' = "handleBack"
    /\ UNCHANGED <<formData, errors, toasts, navigations, location>>
    /\ UNCHANGED <<loginVars, progressVars>>

\* keydown on the input
handleKeyDown ==
    /\ RegisterMounted
    /\ \E key \in Keys :
          IF key = "Enter"
          THEN /\ handleNextBody
               /\ lastEvent' = "handleKeyDown:Enter"
          ELSE /\ lastEvent' = "handleKeyDown:other"
               /\ UNCHANGED <<registerVars, toasts, navigations, location>>
    /\ UNCHANGED <<loginVars, progressVars>>

\* onChange without its setErrors
registerOnChangeBody_KeepsError(value) ==
    /\ formData' = [formData EXCEPT ![currentField.field] = value]
    /\ UNCHANGED errors

\* onChange replacing the errors object instead of spreading it
registerOnChangeBody_ClearsAll(value) ==
    /\ formData' = [formData EXCEPT ![currentField.field] = value]
    /\ errors' = [g \in {currentField.field} |-> ""]

\* the body of the input's onChange
registerOnChangeBody(value) ==
    /\ formData' = [formData EXCEPT ![currentField.field] = value]
    /\ errors' = withError(currentField.field, "")

\* the user edits the input of the active step
registerOnChange ==
    /\ RegisterMounted
    /\ \E value \in Typed : registerOnChangeBody(value)
    /\ lastEvent' = "onChange"
    /\ UNCHANGED <<currentStep, visited, toasts, navigations, location>>
    /\ UNCHANGED <<loginVars, progressVars>>

\* click on "Sign in" below the wizard
registerSignInLink ==
    /\ RegisterMounted
    /\ navigations' = Append(navigations, "/login")
    /\ location' = "/login"
    /\ lastEvent' = "signInLink"
    /\ UNCHANGED <<registerVars, toasts>>
    /\ UNCHANGED <<loginVars, progressVars>>

\* a render showing every stored error, as the sign-in form does
visibleErrors_All ==
    { f \in Fields : Truthy(errorOf(f)) }

\* what the screen renders below the input
visibleErrors ==
    { f \in Fields : f = currentField.field /\ Truthy(errorOf(f)) }

----------------------------------------------------------------------------
(* Sign-in form *)

\* the screen exists while its route is shown
LoginMounted == location = "/login"

\* newErrors with the length test off by one (length <= 8)
newErrors_StrictLength ==
    [email |->
        IF loginFormData.email = <<>> THEN "Email is required"
        ELSE IF ~emailPattern(loginFormData.email) THEN "Please enter a valid email"
        ELSE "",
     password |->
        IF loginFormData.password = <<>> THEN "Password is required"
        ELSE IF Len(loginFormData.password) <= MinPasswordLength
             THEN "Password must be at least 8 characters"
        ELSE ""]

\* newErrors testing the password only once the email has passed
newErrors_EmailFirst ==
    LET emailError ==
            IF loginFormData.email = <<>> THEN "Email is required"
            ELSE IF ~emailPattern(loginFormData.email) THEN "Please enter a valid email"
            ELSE ""
    IN  [email |-> emailError,
         password |->
            IF emailError # "" THEN ""
            ELSE IF loginFormData.password = <<>> THEN "Password is required"
            ELSE IF Len(loginFormData.password) < MinPasswordLength
                 THEN "Password must be at least 8 characters"
            ELSE ""]

\* newErrors as computed by validateForm
newErrors ==
    [email |->
        IF loginFormData.email = <<>> THEN "Email is required"
        ELSE IF ~emailPattern(loginFormData.email) THEN "Please enter a valid email"
        ELSE "",
     password |->
        IF loginFormData.password = <<>> THEN "Password is required"
        ELSE IF Len(loginFormData.password) < MinPasswordLength
             THEN "Password must be at least 8 characters"
        ELSE ""]

\* validateForm: stores newErrors and returns whether both are empty
validateForm(result) ==
    /\ loginErrors' = newErrors
    /\ result = (~Truthy(newErrors.email) /\ ~Truthy(newErrors.password))

\* submit of the form
loginHandleSubmit ==
    /\ LoginMounted
    /\ \E ok \in BOOLEAN :
          /\ validateForm(ok)
          /\ IF ~ok
             THEN UNCHANGED <<toasts, navigations, location>>
             ELSE /\ toasts' = Append(toasts, "Welcome back!")
                  /\ navigations' = Append(navigations, "/")
                  /\ location' = "/"
    /\ lastEvent' = "handleSubmit"
    /\ UNCHANGED loginFormData
    /\ UNCHANGED <<registerVars, progressVars>>

\* the email onChange resetting the whole errors object
emailOnChangeBody_ClearsBoth(value) ==
    /\ loginFormData' = [loginFormData EXCEPT !.email = value]
    /\ loginErrors' = [email |-> "", password |-> ""]

\* the body of the email input's onChange
emailOnChangeBody(value) ==
    /\ loginFormData' = [loginFormData EXCEPT !.email = value]
    /\ loginErrors' = [loginErrors EXCEPT !.email = ""]

\* the user edits the email input
emailOnChange ==
    /\ LoginMounted
    /\ \E value \in Typed : emailOnChangeBody(value)
    /\ lastEvent' = "onChange:email"
    /\ UNCHANGED <<toasts, navigations, location>>
    /\ UNCHANGED <<registerVars, progressVars>>

\* the body of the password input's onChange
passwordOnChangeBody(value) ==
    /\ loginFormData' = [loginFormData EXCEPT !.password = value]
    /\ loginErrors' = [loginErrors EXCEPT !.password = ""]

\* the user edits the password input
passwordOnChange ==
    /\ LoginMounted
    /\ \E value \in Typed : passwordOnChangeBody(value)
    /\ lastEvent' = "onChange:password"
    /\ UNCHANGED <<toasts, navigations, location>>
    /\ UNCHANGED <<registerVars, progressVars>>

\* click on "Create one" below the form
loginCreateOneLink ==
    /\ LoginMounted
    /\ navigations' = Append(navigations, "/register")
    /\ location' = "/register"
    /\ lastEvent' = "createOneLink"
    /\ UNCHANGED <<loginVars, toasts>>
    /\ UNCHANGED <<registerVars, progressVars>>

----------------------------------------------------------------------------
(* Progress indicator *)

\* ProgressSteps with the tests of its class expression swapped in order
\* (index <= currentStep tested first)
ProgressSteps_ActiveAsCompleted(cs, totalSteps) ==
    [k \in 1..totalSteps |->
        LET index == k - 1
        IN  IF index <= cs THEN "bg-primary"
            ELSE IF index = cs THEN "bg-primary/60"
            ELSE "bg-muted"]

\* Array.from({ length: totalSteps }).map((_, index) => <div className=... />):
\* the class that tells the segments apart, for index = 0 .. totalSteps - 1
ProgressSteps(cs, totalSteps) ==
    [k \in 1..totalSteps |->
        LET index == k - 1
        IN  IF index < cs THEN "bg-primary"
            ELSE IF index = cs THEN "bg-primary/60"
            ELSE "bg-muted"]

\* <ProgressSteps currentStep={currentStep} totalSteps={steps.length} />
wizardProgress == ProgressSteps(currentStep, Len(steps))

\* the component rendered on its own, outside the two screens
ProgressStepsMounted == location = "ProgressSteps"

\* a render of the component with its props
renderProgressSteps ==
    /\ ProgressStepsMounted
    /\ progressSegments' =
          ProgressSteps(progressProps.currentStep, progressProps.totalSteps)
    /\ lastEvent' = "render"
    /\ UNCHANGED <<registerVars, loginVars, progressProps,
                   toasts, navigations, location>>

----------------------------------------------------------------------------
(* Specifications *)

InitRegisterState ==
    /\ currentStep = 0
    /\ formData = [name |-> <<>>, email |-> <<>>,
                   password |-> <<>>, confirmPassword |-> <<>>]
    /\ errors = <<>>
    /\ visited = <<0>>

InitLoginState ==
    /\ loginFormData = [email |-> <<>>, password |-> <<>>]
    /\ loginErrors = [email |-> "", password |-> ""]

\* ProgressSteps is not rendered on its own
InitProgressState ==
    /\ progressProps = [currentStep |-> 0, totalSteps |-> 0]
    /\ progressSegments = <<>>

Init ==
    /\ InitRegisterState
    /\ InitLoginState
    /\ toasts = <<>>
    /\ navigations = <<>>
    /\ location = "/register"
    /\ lastEvent = "mount"
    /\ InitProgressState

Next ==
    \/ handleNext
    \/ handleBack
    \/ handleKeyDown
    \/ registerOnChange
    \/ registerSignInLink

\* the registration wizard, from its mount to its leaving the route
Spec == Init /\ [][Next]_vars

LoginInit ==
    /\ InitRegisterState
    /\ InitLoginState
    /\ toasts = <<>>
    /\ navigations = <<>>
    /\ location = "/login"
    /\ lastEvent = "mount"
    /\ InitProgressState

LoginNext ==
    \/ loginHandleSubmit
    \/ emailOnChange
    \/ passwordOnChange
    \/ loginCreateOneLink

\* the sign-in form, from its mount to its leaving the route
LoginSpec == LoginInit /\ [][LoginNext]_vars

\* the wizard at its email step with some email typed
EmailInitRegister ==
    /\ location = "/register"
    /\ currentStep = 1
    /\ \E e \in EmailInputs :
          formData = [name |-> <<"A", "l">>, email |-> e,
                      password |-> <<>>, confirmPassword |-> <<>>]
    /\ errors = [f \in {"name", "email"} |-> ""]
    /\ visited = <<0, 1>>
    /\ InitLoginState
    /\ lastEvent = "onChange"

\* the sign-in form with some email and a long enough password typed
EmailInitLogin ==
    /\ location = "/login"
    /\ \E e \in EmailInputs :
          loginFormData = [email |-> e, password |-> Rep("a", MinPasswordLength)]
    /\ loginErrors = [email |-> "", password |-> ""]
    /\ InitRegisterState
    /\ lastEvent = "onChange:email"

EmailInit ==
    /\ InitProgressState
    /\ toasts = <<>>
    /\ navigations = <<>>
    /\ (EmailInitRegister \/ EmailInitLogin)

EmailNext ==
    \/ handleNext
    \/ loginHandleSubmit

\* both email validators applied to every string of EmailInputs
EmailSpec == EmailInit /\ [][EmailNext]_vars

\* ProgressSteps about to be rendered on its own with some props
ProgressInputInit ==
    /\ InitRegisterState
    /\ InitLoginState
    /\ toasts = <<>>
    /\ navigations = <<>>
    /\ location = "ProgressSteps"
    /\ lastEvent = "mount"
    /\ \E total \in 0..MaxTotalSteps : \E cs \in (-1)..(MaxTotalSteps + 1) :
          progressProps = [currentStep |-> cs, totalSteps |-> total]
    /\ progressSegments = <<>>

ProgressInit == Init \/ ProgressInputInit

ProgressNext == Next \/ renderProgressSteps

\* the progress indicator: as the wizard drives it, and on its own with any props
ProgressSpec == ProgressInit /\ [][ProgressNext]_vars

----------------------------------------------------------------------------
(* Vocabulary of the properties *)

\* the events that run handleNext: the button and the Enter key
AdvanceEvents == {"handleNext", "handleKeyDown:Enter"}

activeField == currentField.field
activeValue == formData[activeField]

\* the rule a field must satisfy to advance, as the specification states it
FailsRule(field, value) ==
    CASE field = "name" -> Len(trim(value)) < 2
      [] field = "email" -> ~emailPattern(value)
      [] field = "password" -> Len(value) < 8
      [] field = "confirmPassword" -> value # formData.password

\* the message of each rule
RuleMessage(field) ==
    CASE field = "name" -> "Name must be at least 2 characters"
      [] field = "email" -> "Please enter a valid email"
      [] field = "password" -> "Password must be at least 8 characters"
      [] field = "confirmPassword" -> "Passwords do not match"

NoEffectIssued == toasts' = toasts /\ navigations' = navigations

Submitted == toasts # <<>> \/ (\E i \in 1..Len(navigations) : navigations[i] = "/")

Abs(n) == IF n < 0 THEN -n ELSE n

----------------------------------------------------------------------------
(* Registration wizard: properties *)

\* C1: an advance whose active field passes its rule sets that field's error
\* entry to the empty string and changes no field value; below step 3 it
\* increments currentStep and issues no notification or navigation; at step 3
\* it issues one notification and one navigation to "/" and leaves
\* currentStep at 3.
C1_AdvanceSuccess ==
    [][ (lastEvent' \in AdvanceEvents /\ ~FailsRule(activeField, activeValue)) =>
          /\ activeField \in DOMAIN errors'
          /\ errors'[activeField] = ""
          /\ formData' = formData
          /\ IF currentStep < 3
             THEN /\ currentStep' = currentStep + 1
                  /\ NoEffectIssued
             ELSE /\ currentStep' = 3
                  /\ toasts' = Append(toasts, "Account created!")
                  /\ navigations' = Append(navigations, "/")
      ]_vars

\* an advance has just succeeded at step 1: the wizard stands at step 2 with
\* the email error entry empty and nothing issued
C1_Witness ==
    /\ lastEvent \in AdvanceEvents
    /\ currentStep = 2
    /\ errorOf("email") = ""
    /\ ~Truthy(errorOf("password"))
    /\ ~FailsRule("email", formData.email)
    /\ toasts = <<>>

\* C2: an advance whose active field fails its rule stores that rule's
\* message as the field's error, and changes neither currentStep nor any
\* field value, and issues no notification or navigation; at every step.
C2_AdvanceFailure ==
    [][ (lastEvent' \in AdvanceEvents /\ FailsRule(activeField, activeValue)) =>
          /\ activeField \in DOMAIN errors'
          /\ errors'[activeField] = RuleMessage(activeField)
          /\ currentStep' = currentStep
          /\ formData' = formData
          /\ NoEffectIssued
      ]_vars

\* an advance has just failed at the confirm-password step
C2_Witness ==
    /\ lastEvent \in AdvanceEvents
    /\ currentStep = 3
    /\ formData.confirmPassword # formData.password
    /\ errorOf("confirmPassword") = "Passwords do not match"
    /\ toasts = <<>>
    /\ navigations = <<>>

\* C3: a notification or a navigation to "/" is issued only by an advance
\* taken at step 3; no action changes currentStep by more than 1; and once
\* submission has happened currentStep has visited 0, 1, 2, 3 in that order
\* and there is exactly one notification and exactly one navigation to "/".
C3_SubmissionOnlyAfterAllSteps ==
    [][ /\ (toasts' # toasts \/ navigations' = Append(navigations, "/")) =>
              /\ lastEvent' \in AdvanceEvents
              /\ currentStep = 3
              /\ toasts' = Append(toasts, "Account created!")
              /\ navigations' = Append(navigations, "/")
        /\ Abs(currentStep' - currentStep) <= 1
        /\ Submitted' =>
              /\ visited' = <<0, 1, 2, 3>>
              /\ toasts' = <<"Account created!">>
              /\ navigations' = <<"/">>
      ]_vars

\* the wizard has been submitted by an advance at the last step
C3_Witness ==
    /\ Submitted
    /\ lastEvent \in AdvanceEvents
    /\ currentStep = 3
    /\ location = "/"
    /\ formData.confirmPassword = formData.password

\* C4: the wizard starts with four empty fields, no error and currentStep 0,
\* and currentStep is always an integer of 0..3, an index of steps.
C4_StepInRange ==
    /\ currentStep \in 0..3
    /\ currentStep + 1 \in DOMAIN steps
    /\ lastEvent = "mount" =>
          /\ currentStep = 0
          /\ \A f \in Fields : formData[f] = <<>>
          /\ \A f \in Fields : ~Truthy(errorOf(f))

\* the wizard is back at step 0 after having reached the last step
C4_Witness ==
    /\ lastEvent = "handleBack"
    /\ currentStep = 0
    /\ visited = <<0, 1, 2, 3>>

\* C5: a retreat decrements currentStep when it is positive and leaves it
\* otherwise, and changes no field value and no error entry and issues no
\* notification or navigation.
C5_RetreatFrame ==
    [][ lastEvent' = "handleBack" =>
          /\ currentStep' = (IF currentStep > 0 THEN currentStep - 1 ELSE currentStep)
          /\ formData' = formData
          /\ errors' = errors
          /\ NoEffectIssued
      ]_vars

\* a retreat from step 2 to step 1 with the password error still stored
C5_Witness ==
    /\ lastEvent = "handleBack"
    /\ currentStep = 1
    /\ errorOf("password") = "Password must be at least 8 characters"
    /\ formData.password # <<>>

\* C6: an edit at step k replaces only the value of the field of step k and
\* empties only that field's error entry; currentStep, the other values and
\* the other error entries stay, and nothing is issued.
C6_EditFrame ==
    [][ lastEvent' = "onChange" =>
          /\ formData'[activeField] \in Typed
          /\ \A g \in Fields \ {activeField} : formData'[g] = formData[g]
          /\ activeField \in DOMAIN errors'
          /\ errors'[activeField] = ""
          /\ \A g \in Fields \ {activeField} : errorOf(g)' = errorOf(g)
          /\ currentStep' = currentStep
          /\ NoEffectIssued
      ]_vars

\* the password has just been edited to equal the confirmation while the
\* confirmation's mismatch error is still stored
C6_Witness ==
    /\ lastEvent = "onChange"
    /\ currentStep = 2
    /\ errorOf("confirmPassword") = "Passwords do not match"
    /\ formData.password = formData.confirmPassword

\* C7: at most one field's error is visible, and it is the active field's;
\* an error stored for another step's field is not displayed.
C7_OnlyActiveErrorVisible ==
    /\ Cardinality(visibleErrors) <= 1
    /\ \A f \in visibleErrors : f = steps[currentStep + 1].field
    /\ \A f \in Fields : f # steps[currentStep + 1].field => f \notin visibleErrors

\* errors are stored for the active field and for a later step's field
C7_Witness ==
    /\ currentStep = 1
    /\ Truthy(errorOf("email"))
    /\ Truthy(errorOf("password"))

----------------------------------------------------------------------------
(* Sign-in form: properties *)

\* the sign-in rules, as the specification states them
EmailPasses == loginFormData.email # <<>> /\ emailPattern(loginFormData.email)
PasswordPasses == Len(loginFormData.password) >= 8

\* C8: a submit with a passing email and a passing password empties both
\* error entries and issues exactly one notification and one navigation to
\* "/"; nothing else of the sign-in form issues a notification or a
\* navigation to "/".
C8_SignInSuccess ==
    [][ /\ (lastEvent' = "handleSubmit" /\ EmailPasses /\ PasswordPasses) =>
              /\ loginErrors' = [email |-> "", password |-> ""]
              /\ Len(toasts') = Len(toasts) + 1
              /\ navigations' = Append(navigations, "/")
        /\ (toasts' # toasts \/ navigations' = Append(navigations, "/")) =>
              /\ lastEvent' = "handleSubmit"
              /\ EmailPasses
              /\ PasswordPasses
      ]_vars

\* a submit has just succeeded with a password of exactly eight characters
C8_Witness ==
    /\ lastEvent = "handleSubmit"
    /\ Len(toasts) = 1
    /\ navigations = <<"/">>
    /\ Len(loginFormData.password) = 8
    /\ emailPattern(loginFormData.email)

\* C9: a submit with a failing email or password issues nothing, keeps the
\* field values, and stores for each field exactly the message of the rule
\* it fails, or the empty string when it passes, whatever was stored before.
C9_SignInFailure ==
    [][ (lastEvent' = "handleSubmit" /\ ~(EmailPasses /\ PasswordPasses)) =>
          /\ NoEffectIssued
          /\ loginFormData' = loginFormData
          /\ loginErrors'.email =
                (IF loginFormData.email = <<>> THEN "Email is required"
                 ELSE IF ~emailPattern(loginFormData.email)
                      THEN "Please enter a valid email"
                 ELSE "")
          /\ loginErrors'.password =
                (IF loginFormData.password = <<>> THEN "Password is required"
                 ELSE IF Len(loginFormData.password) < 8
                      THEN "Password must be at least 8 characters"
                 ELSE "")
      ]_vars

\* a valid email with a 7-character password has yielded only the length error
C9_Witness ==
    /\ lastEvent = "handleSubmit"
    /\ emailPattern(loginFormData.email)
    /\ Len(loginFormData.password) = 7
    /\ loginErrors = [email |-> "",
                      password |-> "Password must be at least 8 characters"]
    /\ toasts = <<>>
    /\ navigations = <<>>

\* C10: an edit of email empties errors.email and keeps errors.password and
\* the password value; an edit of password does the same the other way
\* round; an error entry becomes non-empty only by a submit.
C10_SignInEditFrame ==
    [][ /\ lastEvent' = "onChange:email" =>
              /\ loginErrors'.email = ""
              /\ loginErrors'.password = loginErrors.password
              /\ loginFormData'.password = loginFormData.password
        /\ lastEvent' = "onChange:password" =>
              /\ loginErrors'.password = ""
              /\ loginErrors'.email = loginErrors.email
              /\ loginFormData'.email = loginFormData.email
        /\ (\E f \in {"email", "password"} :
                loginErrors'[f] # "" /\ loginErrors'[f] # loginErrors[f]) =>
              lastEvent' = "handleSubmit"
      ]_vars

\* the email has just been edited to a value that still fails, its error is
\* empty all the same, and the password error is still stored
C10_Witness ==
    /\ lastEvent = "onChange:email"
    /\ ~emailPattern(loginFormData.email)
    /\ loginErrors.email = ""
    /\ loginErrors.password = "Password is required"

----------------------------------------------------------------------------
(* Email validation: property *)

\* the positions of "@" in s
AtPositions(s) == { i \in 1..Len(s) : s[i] = "@" }

\* the reference: no whitespace, exactly one "@", at least one character
\* before it, and after it a "." with a character on each side
EmailReference(s) ==
    /\ \A i \in 1..Len(s) : s[i] # " "
    /\ Cardinality(AtPositions(s)) = 1
    /\ LET at == CHOOSE i \in AtPositions(s) : TRUE
       IN  /\ at > 1
           /\ \E k \in (at + 2)..(Len(s) - 1) : s[k] = "."

\* C11: for every string over {letter, ".", "@", space} up to the bounded
\* length, the wizard's email step accepts it (advances to step 2) exactly
\* when the reference accepts it, and the sign-in form stores no email error
\* (and, the password being valid, signs in) exactly when the reference
\* accepts it; both store "Please enter a valid email" or, for the empty
\* string at sign-in, "Email is required" otherwise.
C11_EmailMatchesReference ==
    /\ (location = "/register" /\ lastEvent = "handleNext") =>
          /\ (currentStep = 2) = EmailReference(formData.email)
          /\ (errorOf("email") = "Please enter a valid email")
                = ~EmailReference(formData.email)
    /\ lastEvent = "handleSubmit" =>
          /\ (loginErrors.email = "") = EmailReference(loginFormData.email)
          /\ (location = "/") = EmailReference(loginFormData.email)
          /\ EmailReference(<<"a", "@", "a", ".", "a", "a">>)
          /\ ~EmailReference(<<"a", "@", "a">>)
          /\ ~EmailReference(<<"@", "a", ".", "a", "a">>)
          /\ ~EmailReference(<<"a", " ", "a", "@", "a", ".", "a">>)
          /\ ~EmailReference(<<>>)

\* the sign-in form has rejected a string with a space before a well-formed
\* address
C11_Witness ==
    /\ lastEvent = "handleSubmit"
    /\ loginFormData.email = <<"a", " ", "a", "@", "a", ".", "a">>
    /\ loginErrors.email = "Please enter a valid email"

----------------------------------------------------------------------------
(* Progress indicator: property *)

\* the state a segment's class stands for
SegmentState(class) ==
    CASE class = "bg-primary" -> "completed"
      [] class = "bg-primary/60" -> "active"
      [] class = "bg-muted" -> "pending"

SegmentStates(segments) == [k \in DOMAIN segments |-> SegmentState(segments[k])]

CountOf(segments, state) ==
    Cardinality({ k \in DOMAIN segments : SegmentState(segments[k]) = state })

\* C12: a render with props (currentStep, totalSteps), totalSteps >= 0, gives
\* exactly totalSteps segments, segment i being completed when
\* i < currentStep, active when i = currentStep and pending otherwise; and in
\* every state of the wizard its indicator (totalSteps = 4) has exactly one
\* active segment and exactly currentStep completed ones.
C12_ProgressSegments ==
    /\ lastEvent = "render" =>
          /\ Len(progressSegments) = progressProps.totalSteps
          /\ \A i \in 0..(progressProps.totalSteps - 1) :
                SegmentState(progressSegments[i + 1]) =
                    (IF i < progressProps.currentStep THEN "completed"
                     ELSE IF i = progressProps.currentStep THEN "active"
                     ELSE "pending")
    /\ location # "ProgressSteps" =>
          /\ Len(wizardProgress) = 4
          /\ CountOf(wizardProgress, "active") = 1
          /\ CountOf(wizardProgress, "completed") = currentStep
          /\ currentStep = 2 =>
                SegmentStates(wizardProgress) =
                    <<"completed", "completed", "active", "pending">>

\* the wizard stands at step 2 after an advance, its indicator showing two
\* completed segments
C12_Witness ==
    /\ location = "/register"
    /\ lastEvent \in AdvanceEvents
    /\ currentStep = 2
    /\ visited = <<0, 1, 2>>
    /\ CountOf(wizardProgress, "completed") = 2

----------------------------------------------------------------------------
(* Registration wizard: implicit invariants *)

\* C13: every field bound to a step below currentStep passes its rule
\* (step >= 1: trimmed name of length >= 2; step >= 2: email matching the
\* pattern; step = 3: password of length >= 8), and once submission has been
\* invoked all four fields pass and confirmPassword equals password.
C13_PassedStepsStayValid ==
    /\ currentStep >= 1 => Len(trim(formData.name)) >= 2
    /\ currentStep >= 2 => emailPattern(formData.email)
    /\ currentStep = 3 => Len(formData.password) >= 8
    /\ Submitted =>
          /\ \A f \in Fields : ~FailsRule(f, formData[f])
          /\ formData.confirmPassword = formData.password

\* the wizard has just advanced to the last step for the second time (a
\* confirmation was typed there before the retreat), the password having
\* been edited in between
C13_Witness ==
    /\ currentStep = 3
    /\ lastEvent \in AdvanceEvents
    /\ ~Submitted
    /\ ~Truthy(errorOf("confirmPassword"))
    /\ Len(formData.confirmPassword) = 8
    /\ Len(formData.password) = 9

\* C14: for name, email and password, a non-empty stored error means that
\* the field's current value fails its rule and that the stored message is
\* that rule's message.
C14_StoredErrorNeverStale ==
    \A f \in {"name", "email", "password"} :
        Truthy(errorOf(f)) =>
            /\ FailsRule(f, formData[f])
            /\ errorOf(f) = RuleMessage(f)

\* the password error is stored at step 2 next to a confirmation error that
\* has gone stale (the two values are equal by now)
C14_Witness ==
    /\ currentStep = 2
    /\ lastEvent \in AdvanceEvents
    /\ errorOf("password") = "Password must be at least 8 characters"
    /\ errorOf("confirmPassword") = "Passwords do not match"
    /\ formData.confirmPassword = formData.password

====
